---------------------------- MODULE Spec2Model ----------------------------
(***************************************************************************)
(* Model of the satellite-analysis repository.                             *)
(*                                                                         *)
(*   src/analyze_spacetrack_data.py  angular_separation,                   *)
(*                                   find_smarter_every_days_satellite,    *)
(*                                   process_tle_with_skyfield, main       *)
(*   src/get_spacetrack_data.py      authenticate_space_track,             *)
(*                                   get_space_track_data, main            *)
(*                                                                         *)
(* Numbers.  The program computes in float64.  The model computes in       *)
(* fixed point: angles given in degrees are held in tenths of a degree,    *)
(* radians and the values of sin and cos in units of 1/SCALE, the          *)
(* haversine term a in units of 1/SCALE^2, the resulting separation in     *)
(* hundredths of a degree, distances in whole kilometres.  Every           *)
(* intermediate product stays below 2^31.                                  *)
(*                                                                         *)
(* analyze_spacetrack_data.py is read as Python 3.12 or later reads it:    *)
(* the f-string of lines 46-49 breaks a line inside its braces.            *)
(***************************************************************************)
EXTENDS Integers, Sequences, FiniteSets, TLC

\* ------------------------------------------------------------------------
\* Fixed-point arithmetic standing for numpy's float64 functions
\* ------------------------------------------------------------------------

\* Resolution of radians and of sin/cos values: 1/SCALE.
SCALE == 10000

\* pi in units of 1/SCALE.
PI_S == 31416

HALF_PI_S == PI_S \div 2

TWO_PI_S == 2 * PI_S

\* The value np.arcsin returns outside [-1, 1] (with a RuntimeWarning), and
\* every operation on it returns it again.
NaN == -1000000

\* Truncating division, symmetric in the sign as float division is.
DivT(x, d) == IF x < 0 THEN -((-x) \div d) ELSE x \div d

\* np.radians: tenths of a degree to radians/SCALE.
Radians(deg10) == DivT(deg10 * PI_S, 1800)

\* np.degrees: radians/SCALE to hundredths of a degree.
Degrees(rad) == IF rad = NaN THEN NaN ELSE DivT(rad * 18000, PI_S)

\* sin on [0, pi/2]: the Taylor polynomial to x^9 in Horner form.
SinQ(x) ==
    LET x2 == (x * x) \div SCALE
        t4 == SCALE - (x2 \div 72)
        t3 == SCALE - (((x2 * t4) \div SCALE) \div 42)
        t2 == SCALE - (((x2 * t3) \div SCALE) \div 20)
        t1 == SCALE - (((x2 * t2) \div SCALE) \div 6)
        s  == (x * t1) \div SCALE
    IN  IF s > SCALE THEN SCALE ELSE s

\* np.sin: reduction to the first quadrant; sin is odd.
SinPos(x) ==
    LET r == x % TWO_PI_S
    IN  IF r <= HALF_PI_S THEN SinQ(r)
        ELSE IF r <= PI_S THEN SinQ(PI_S - r)
        ELSE IF r <= PI_S + HALF_PI_S THEN -SinQ(r - PI_S)
        ELSE -SinQ(TWO_PI_S - r)

Sin(x) == IF x < 0 THEN -SinPos(-x) ELSE SinPos(x)

\* np.cos
Cos(x) == Sin(x + HALF_PI_S)

\* np.sqrt on a value in units of 1/SCALE^2, result in units of 1/SCALE.
RECURSIVE SqrtSearch(_, _, _)
SqrtSearch(v, lo, hi) ==
    IF lo >= hi THEN lo
    ELSE LET mid == (lo + hi + 1) \div 2
         IN  IF mid * mid <= v THEN SqrtSearch(v, mid, hi)
             ELSE SqrtSearch(v, lo, mid - 1)

Sqrt(v) == SqrtSearch(v, 0, 2 * SCALE)

\* np.arcsin on [0, 1]: the largest angle of the first quadrant whose sine
\* does not exceed y; NaN above 1.
RECURSIVE ArcsinSearch(_, _, _)
ArcsinSearch(y, lo, hi) ==
    IF lo >= hi THEN lo
    ELSE LET mid == (lo + hi + 1) \div 2
         IN  IF SinQ(mid) <= y THEN ArcsinSearch(y, mid, hi)
             ELSE ArcsinSearch(y, lo, mid - 1)

Arcsin(y) == IF y > SCALE THEN NaN ELSE ArcsinSearch(y, 0, HALF_PI_S)

\* ------------------------------------------------------------------------
\* angular_separation (analyze_spacetrack_data.py, lines 54-69)
\* ------------------------------------------------------------------------

\* The haversine term with cos(lat1) written twice.
Haversine_Lat1Twice(lat1, lon1, lat2, lon2) ==
    LET dlat == lat2 - lat1
        dlon == lon2 - lon1
        sdlat == Sin(DivT(dlat, 2))
        sdlon == Sin(DivT(dlon, 2))
    IN  sdlat * sdlat
          + DivT(Cos(lat1) * Cos(lat1), SCALE) * ((sdlon * sdlon) \div SCALE)

\* The haversine term a, in units of 1/SCALE^2.
Haversine(lat1, lon1, lat2, lon2) ==
    LET dlat == lat2 - lat1
        dlon == lon2 - lon1
        sdlat == Sin(DivT(dlat, 2))
        sdlon == Sin(DivT(dlon, 2))
    IN  sdlat * sdlat
          + DivT(Cos(lat1) * Cos(lat2), SCALE) * ((sdlon * sdlon) \div SCALE)

angular_separation(alt1, az1, alt2, az2) ==
    LET lat1 == Radians(alt1)
        lon1 == Radians(az1)
        lat2 == Radians(alt2)
        lon2 == Radians(az2)
        a == Haversine(lat1, lon1, lat2, lon2)
        asin == Arcsin(Sqrt(a))
        angular_distance == IF asin = NaN THEN NaN ELSE 2 * asin
    IN  Degrees(angular_distance)


\* ------------------------------------------------------------------------
\* State
\* ------------------------------------------------------------------------

VARIABLES
    \* analyze_spacetrack_data.py: main and find_smarter_every_days_satellite
    gp_data,      \* the list json.load returned: the orbital-element records
    sats,         \* the EarthSatellite objects built from gp_data (line 77)
    idx,          \* position of the loop "for sat in sats" (line 97)
    candidates,   \* the list of candidate dictionaries (line 95)
    shown,        \* position of the loop "for sat in candidates[:5]" (line 114)
    console,      \* what the ranking run has printed, in order
    pc,           \* where the ranking run is
    \* angular_separation called on its own, in both argument orders
    dirA, dirB,   \* two directions, each <<altitude, azimuth>>
    sepAB, sepBA, \* the two results
    sep_pc,
    \* get_spacetrack_data.py: main
    username,     \* os.getenv("SPACETRACK_USERNAME")
    password,     \* os.getenv("SPACETRACK_PASSWORD")
    session,      \* what authenticate_space_track returned
    acq_data,     \* main's gp_data: what get_space_track_data returned
    file,         \* the contents of satellite_data.json
    file0,        \* its contents when the run started
    writes,       \* how often the run has opened it for writing
    acq_console,  \* what the acquisition run has printed, in order
    acq_pc,       \* where the acquisition run is
    \* analyze_spacetrack_data.py: process_tle_with_skyfield
    sat_data,     \* its argument
    proc_idx,     \* position of the loop "for sat in sat_data" (line 24)
    processed_satellites,
    proc_console, \* what the call has printed, in order
    proc_pc       \* where the call is

vars == <<gp_data, sats, idx, candidates, shown, console, pc,
          dirA, dirB, sepAB, sepBA, sep_pc,
          username, password, session, acq_data, file, file0, writes,
          acq_console, acq_pc,
          sat_data, proc_idx, processed_satellites, proc_console, proc_pc>>

rank_vars == <<gp_data, sats, idx, candidates, shown, console, pc>>

sep_vars == <<dirA, dirB, sepAB, sepBA, sep_pc>>

acq_vars == <<username, password, session, acq_data, file, file0, writes,
              acq_console, acq_pc>>

proc_vars == <<sat_data, proc_idx, processed_satellites, proc_console, proc_pc>>

\* ------------------------------------------------------------------------
\* Constants of find_smarter_every_days_satellite
\* ------------------------------------------------------------------------

\* SUN_ALT = 57.0 and SUN_AZ = 209.2, in tenths of a degree.
SUN_ALT == 570

SUN_AZ == 2092

\* "alt.degrees > 0": the horizon.
HORIZON == 0

\* "distance.km < 10000".
MAX_DISTANCE_KM == 10000

\* "candidates[:5]".
TOP_N == 5

\* ------------------------------------------------------------------------
\* Inputs: orbital-element records and what propagation makes of them
\* ------------------------------------------------------------------------

\* Catalog numbers of the objects of the model.
CatalogIds == 1..12

\* The external propagation capability: the topocentric altitude and azimuth
\* (tenths of a degree) and slant range (km) of each object seen from JACKSON
\* at FIRST_OBJECT, "(sat - JACKSON).at(FIRST_OBJECT).altaz()".
Ephemeris ==
    <<  [alt |->  570, az |-> 2092, km |->   400],   \*  1 in the sun's direction
        [alt |->  550, az |-> 2070, km |->   500],   \*  2 close to the sun
        [alt |->  550, az |-> 2070, km |->   800],   \*  3 same direction as 2
        [alt |->  100, az |->  300, km |->  9999],   \*  4 far from the sun
        [alt |->  -50, az |-> 2092, km |->   500],   \*  5 below the horizon
        [alt |->    0, az |-> 2092, km |->   500],   \*  6 exactly on the horizon
        [alt |->  100, az |-> 2092, km |-> 10500],   \*  7 beyond the range cap
        [alt |->  450, az |-> 2092, km |-> 10000],   \*  8 exactly at the range cap
        [alt |->  300, az |-> 1500, km |->  1200],   \*  9 record lacks fields
        [alt |->  450, az |-> 2092, km |->   700],   \* 10
        [alt |->  300, az |-> 1500, km |->  1200],   \* 11
        [alt |->  800, az |-> 3000, km |->  2500] >> \* 12

\* An orbital-element record of satellite_data.json.  complete: the record
\* holds every field EarthSatellite.from_omm reads.
Record(n, c) == [NORAD_CAT_ID |-> n, complete |-> c]

\* Records of every kind: visible, filtered out, malformed.
WidePool == {Record(n, TRUE) : n \in 1..8} \cup {Record(9, FALSE)}

\* Visible objects only, two of them in the same direction.
NarrowPool == {Record(n, TRUE) : n \in 1..3}

\* Visible objects in pairwise different directions.
DistinctPool == {Record(n, TRUE) : n \in {1, 2, 4, 10, 11, 12}}

\* Longest input over WidePool, over NarrowPool.
MaxWide == 3

MaxNarrow == 6

SeqsUpTo(S, n) == UNION {[1..k -> S] : k \in 0..n}

IsInjective(s) == \A i, j \in DOMAIN s : s[i] = s[j] => i = j

Inputs ==
    SeqsUpTo(WidePool, MaxWide)
        \cup SeqsUpTo(NarrowPool, MaxNarrow)
        \cup {s \in SeqsUpTo(DistinctPool, Cardinality(DistinctPool)) : IsInjective(s)}

\* ------------------------------------------------------------------------
\* find_smarter_every_days_satellite (analyze_spacetrack_data.py, 72-120)
\* ------------------------------------------------------------------------

\* EarthSatellite.from_omm raises on a record that lacks a field it reads.
FromOmmRaises(fields) == ~fields.complete

\* EarthSatellite.from_omm(ts, fields) on a record it accepts.
from_omm(fields) == [satnum |-> fields.NORAD_CAT_ID]

\* alt, az, distance = (sat - JACKSON).at(FIRST_OBJECT).altaz()
altaz(sat) == Ephemeris[sat.satnum]

\* The filter with "or" written for "and".
IsVisible_Or(alt, km) == alt > HORIZON \/ km < MAX_DISTANCE_KM

\* if alt.degrees > 0 and distance.km < 10000
IsVisible(alt, km) == alt > HORIZON /\ km < MAX_DISTANCE_KM

\* The body of the loop of lines 97-110.
EvaluateSat(cands, sat) ==
    LET topo == altaz(sat)
    IN  IF IsVisible(topo.alt, topo.km)
        THEN LET sep == angular_separation(SUN_ALT, SUN_AZ, topo.alt, topo.az)
             IN  Append(cands, [sep |-> sep, sat |-> sat, alt |-> topo.alt,
                                az |-> topo.az, distance |-> topo.km])
        ELSE cands

\* The comparison of a sort with reverse=True.
KeyLess_Reversed(x, y) == x.sep # NaN /\ y.sep # NaN /\ x.sep > y.sep

\* x["sep"] < y["sep"] as list.sort compares two keys: false with a NaN.
KeyLess(x, y) == x.sep # NaN /\ y.sep # NaN /\ x.sep < y.sep

\* list.sort is stable: c goes behind every element that is not greater.
RECURSIVE InsertStable(_, _)
InsertStable(sorted, c) ==
    IF sorted = <<>> THEN <<c>>
    ELSE LET last == sorted[Len(sorted)]
         IN  IF KeyLess(c, last)
             THEN Append(InsertStable(SubSeq(sorted, 1, Len(sorted) - 1), c), last)
             ELSE Append(sorted, c)

RECURSIVE SortFrom(_, _, _)
SortFrom(cands, i, sorted) ==
    IF i > Len(cands) THEN sorted
    ELSE SortFrom(cands, i + 1, InsertStable(sorted, cands[i]))

\* The sort left out.
SortBySep_Missing(cands) == cands

\* candidates.sort(key=lambda x: x["sep"])
SortBySep(cands) == SortFrom(cands, 1, <<>>)

\* candidates[:5]
TopSlice(cands) == SubSeq(cands, 1, IF Len(cands) < TOP_N THEN Len(cands) ELSE TOP_N)

\* The six print calls of one iteration of lines 114-120.  The formats
\* (.3f for the separation, .2f for the rest) are finer than the model's
\* resolution, so each printed numeral stands for exactly one model value.
PrintedBlock(c) ==
    [text |-> "Satellite", args |-> <<c.sat, c.sep, c.alt, c.az, c.distance>>]

\* print("Loaded", len(sats), "satellites")
PrintedLoaded(n) == [text |-> "Loaded", args |-> <<n>>]

\* Python's None, where a string is expected.
None == "None"

\* A value of main's gp_data or of the file: not there, None, or a JSON list.
Unbound == [tag |-> "unbound", val |-> <<>>]

NoneValue == [tag |-> "None", val |-> <<>>]

JsonList(l) == [tag |-> "list", val |-> l]

\* The variables of a program that is not the one running.
IdleRank ==
    /\ gp_data = <<>>
    /\ sats = <<>>
    /\ idx = 1
    /\ candidates = <<>>
    /\ shown = 1
    /\ console = <<>>
    /\ pc = "idle"

IdleSep ==
    /\ dirA = <<0, 0>>
    /\ dirB = <<0, 0>>
    /\ sepAB = NaN
    /\ sepBA = NaN
    /\ sep_pc = "idle"

IdleAcq ==
    /\ username = None
    /\ password = None
    /\ session = "unbound"
    /\ acq_data = Unbound
    /\ file0 = Unbound
    /\ file = Unbound
    /\ writes = 0
    /\ acq_console = <<>>
    /\ acq_pc = "idle"

IdleProc ==
    /\ sat_data = <<>>
    /\ proc_idx = 1
    /\ processed_satellites = <<>>
    /\ proc_console = <<>>
    /\ proc_pc = "idle"

InitRank ==
    /\ gp_data \in Inputs
    /\ sats = <<>>
    /\ idx = 1
    /\ candidates = <<>>
    /\ shown = 1
    /\ console = <<>>
    /\ pc = "load_sats"
    /\ IdleSep /\ IdleAcq /\ IdleProc

\* Line 77 converting the records in place, gp_data[i] = from_omm(gp_data[i]).
LoadSats_InPlace ==
    /\ pc = "load_sats"
    /\ IF \E i \in DOMAIN gp_data : FromOmmRaises(gp_data[i])
       THEN /\ pc' = "raised"
            /\ UNCHANGED <<gp_data, sats, console>>
       ELSE /\ gp_data' = [i \in DOMAIN gp_data |-> from_omm(gp_data[i])]
            /\ sats' = gp_data'
            /\ console' = Append(console, PrintedLoaded(Len(gp_data)))
            /\ pc' = "evaluate"
    /\ UNCHANGED <<idx, candidates, shown>>
    /\ UNCHANGED <<sep_vars, acq_vars, proc_vars>>

\* Line 77-78: the list comprehension builds every satellite or raises at
\* the first record from_omm rejects; nothing around it catches.
LoadSats ==
    /\ pc = "load_sats"
    /\ IF \E i \in DOMAIN gp_data : FromOmmRaises(gp_data[i])
       THEN /\ pc' = "raised"
            /\ UNCHANGED <<sats, console>>
       ELSE /\ sats' = [i \in DOMAIN gp_data |-> from_omm(gp_data[i])]
            /\ console' = Append(console, PrintedLoaded(Len(gp_data)))
            /\ pc' = "evaluate"
    /\ UNCHANGED <<gp_data, idx, candidates, shown>>
    /\ UNCHANGED <<sep_vars, acq_vars, proc_vars>>

\* Lines 97-110: one iteration of "for sat in sats".
Evaluate ==
    /\ pc = "evaluate"
    /\ idx <= Len(sats)
    /\ candidates' = EvaluateSat(candidates, sats[idx])
    /\ idx' = idx + 1
    /\ UNCHANGED <<gp_data, sats, shown, console, pc>>
    /\ UNCHANGED <<sep_vars, acq_vars, proc_vars>>

\* Line 112, reached when the loop is exhausted.
SortCandidates ==
    /\ pc = "evaluate"
    /\ idx > Len(sats)
    /\ candidates' = SortBySep(candidates)
    /\ pc' = "print"
    /\ UNCHANGED <<gp_data, sats, idx, shown, console>>
    /\ UNCHANGED <<sep_vars, acq_vars, proc_vars>>

\* Lines 114-120: one iteration of "for sat in candidates[:5]".
PrintCandidate ==
    /\ pc = "print"
    /\ shown <= Len(TopSlice(candidates))
    /\ console' = Append(console, PrintedBlock(TopSlice(candidates)[shown]))
    /\ shown' = shown + 1
    /\ UNCHANGED <<gp_data, sats, idx, candidates, pc>>
    /\ UNCHANGED <<sep_vars, acq_vars, proc_vars>>

\* The routine returns, and main with it.
ReturnRank ==
    /\ pc = "print"
    /\ shown > Len(TopSlice(candidates))
    /\ pc' = "done"
    /\ UNCHANGED <<gp_data, sats, idx, candidates, shown, console>>
    /\ UNCHANGED <<sep_vars, acq_vars, proc_vars>>

NextRank ==
    \/ LoadSats
    \/ Evaluate
    \/ SortCandidates
    \/ PrintCandidate
    \/ ReturnRank

\* ------------------------------------------------------------------------
\* angular_separation on its own
\* ------------------------------------------------------------------------

\* Altitudes and azimuths (tenths of a degree) the function is applied to,
\* among them the poles, the horizon, the sun's direction and antipodes.
AltGrid == {-900, -570, -50, 0, 100, 550, 570, 900}

AzGrid == {0, 292, 300, 1800, 2070, 2092, 3599}

InitSep ==
    /\ dirA \in AltGrid \X AzGrid
    /\ dirB \in AltGrid \X AzGrid
    /\ sepAB = NaN
    /\ sepBA = NaN
    /\ sep_pc = "start"
    /\ IdleRank /\ IdleAcq /\ IdleProc

\* angular_separation(A, B)
CallAB ==
    /\ sep_pc \in {"start", "BA"}
    /\ sepAB' = angular_separation(dirA[1], dirA[2], dirB[1], dirB[2])
    /\ sep_pc' = IF sep_pc = "start" THEN "AB" ELSE "both"
    /\ UNCHANGED <<dirA, dirB, sepBA>>
    /\ UNCHANGED <<rank_vars, acq_vars, proc_vars>>

\* angular_separation(B, A)
CallBA ==
    /\ sep_pc \in {"start", "AB"}
    /\ sepBA' = angular_separation(dirB[1], dirB[2], dirA[1], dirA[2])
    /\ sep_pc' = IF sep_pc = "start" THEN "BA" ELSE "both"
    /\ UNCHANGED <<dirA, dirB, sepAB>>
    /\ UNCHANGED <<rank_vars, acq_vars, proc_vars>>

NextSep ==
    \/ CallAB
    \/ CallBA

\* ------------------------------------------------------------------------
\* get_spacetrack_data.py: authenticate_space_track, get_space_track_data,
\* main
\* ------------------------------------------------------------------------

\* What os.getenv yields: None when the variable is not set.
Usernames == {None, "user"}

Passwords == {None, "secret", "wrong"}

\* The subclasses of requests.RequestException a call may raise.
RequestExceptions == {"HTTPError", "ConnectionError", "Timeout"}

\* What the catalog service may answer a query with.
Responses == SeqsUpTo({Record(1, TRUE), Record(5, TRUE)}, 2)

\* len(search_parameters.keys()) of main's search_params (lines 94-99).
SEARCH_PARAMS_LEN == 4

InitAcq ==
    /\ username \in Usernames
    /\ password \in Passwords
    /\ session = "unbound"
    /\ acq_data = Unbound
    /\ file0 \in {Unbound, JsonList(<<Record(4, TRUE)>>)}
    /\ file = file0
    /\ writes = 0
    /\ acq_console = <<>>
    /\ acq_pc = "authenticate"
    /\ IdleRank /\ IdleSep /\ IdleProc

\* The assertions of authenticate_space_track (lines 24-29); os.getenv
\* yields a str or None.
CredentialsDefined == username # None /\ password # None

\* The assertion of get_space_track_data on its session (line 60).
SessionDefined(s) == s # None

\* The assertion on search_parameters (lines 61-65).
ParametersDefined == SEARCH_PARAMS_LEN # 0

\* The test of line 107 left out: the file is written whatever came back.
IsNone_Never(data) == FALSE

\* Line 107: "if gp_data is None".
IsNone(data) == data.tag = "None"

\* authenticate_space_track(username, password), lines 13-47, called at
\* line 102.  A failed assertion leaves main; a RequestException is caught,
\* reported and turned into None.
Authenticate ==
    /\ acq_pc = "authenticate"
    /\ IF ~CredentialsDefined
       THEN /\ acq_console' = Append(acq_console, "Authenticating with space-track.org.")
            /\ acq_pc' = "AssertionError"
            /\ UNCHANGED session
       ELSE \/ /\ session' = "Session"
               /\ acq_console' = acq_console \o
                      <<"Authenticating with space-track.org.",
                        "Successfully authenticated.">>
               /\ acq_pc' = "query"
            \/ \E e \in RequestExceptions :
                  /\ session' = None
                  /\ acq_console' = acq_console \o
                         <<"Authenticating with space-track.org.",
                           "Error logging in with credentials: " \o e>>
                  /\ acq_pc' = "query"
    /\ UNCHANGED <<username, password, acq_data, file, file0, writes>>
    /\ UNCHANGED <<rank_vars, sep_vars, proc_vars>>

\* get_space_track_data(session, search_params), lines 50-83, called at
\* line 105.
GetData ==
    /\ acq_pc = "query"
    /\ IF ~(SessionDefined(session) /\ ParametersDefined)
       THEN /\ acq_console' = Append(acq_console, "Retrieving space-track.org data.")
            /\ acq_pc' = "AssertionError"
            /\ UNCHANGED acq_data
       ELSE \/ \E data \in Responses :
                  /\ acq_data' = JsonList(data)
                  /\ acq_console' = acq_console \o
                         <<"Retrieving space-track.org data.", "Getting",
                           "Recieved data of length " \o ToString(Len(data))>>
                  /\ acq_pc' = "store"
            \/ \E e \in RequestExceptions :
                  /\ acq_data' = NoneValue
                  /\ acq_console' = acq_console \o
                         <<"Retrieving space-track.org data.", "Getting",
                           "Error retrieving data: " \o e>>
                  /\ acq_pc' = "store"
    /\ UNCHANGED <<username, password, session, file, file0, writes>>
    /\ UNCHANGED <<rank_vars, sep_vars, proc_vars>>

\* Lines 107-112 of main: report the failure, or write the file.
Store ==
    /\ acq_pc = "store"
    /\ IF IsNone(acq_data)
       THEN /\ acq_console' = Append(acq_console, "Data requet failed. Please try again.")
            /\ UNCHANGED <<file, writes>>
       ELSE /\ file' = acq_data
            /\ writes' = writes + 1
            /\ UNCHANGED acq_console
    /\ acq_pc' = "done"
    /\ UNCHANGED <<username, password, session, acq_data, file0>>
    /\ UNCHANGED <<rank_vars, sep_vars, proc_vars>>

NextAcq ==
    \/ Authenticate
    \/ GetData
    \/ Store

\* ------------------------------------------------------------------------
\* process_tle_with_skyfield (analyze_spacetrack_data.py, lines 9-51)
\* ------------------------------------------------------------------------

\* What the list may hold: EarthSatellite objects, as the signature says, or
\* record dictionaries, as the docstring says.
SatKinds == {"EarthSatellite", "dict"}

ObjectNames == {"ISS (ZARYA)", "STARLINK-1008"}

Element(kind, name) == [kind |-> kind, OBJECT_NAME |-> name]

\* Longest argument list.
MaxSatData == 3

\* sat.at(t) (line 28): a dictionary has no attribute "at".
AtRaises(sat) == sat.kind = "dict"

\* sat["OBJECT_NAME"] (line 35): an EarthSatellite cannot be subscripted.
SubscriptRaises(sat) == sat.kind = "EarthSatellite"

\* sat.get('OBJECT_NAME', 'Unknown') in the handler (line 48): an
\* EarthSatellite has no attribute "get".
GetRaises(sat) == sat.kind = "EarthSatellite"

InitProc ==
    /\ sat_data \in SeqsUpTo({Element(k, n) : k \in SatKinds, n \in ObjectNames},
                            MaxSatData)
    /\ proc_idx = 1
    /\ processed_satellites = <<>>
    /\ proc_console = <<"processing">>
    /\ proc_pc = "loop"
    /\ IdleRank /\ IdleSep /\ IdleAcq

\* Lines 24-49: one iteration of "for sat in sat_data".  An exception of the
\* try block is caught; one raised while the handler formats its message
\* leaves the function.
ProcessSat ==
    /\ proc_pc = "loop"
    /\ proc_idx <= Len(sat_data)
    /\ LET sat == sat_data[proc_idx]
       IN  IF ~(AtRaises(sat) \/ SubscriptRaises(sat))
           THEN /\ processed_satellites' =
                       Append(processed_satellites, [name |-> sat.OBJECT_NAME])
                /\ proc_idx' = proc_idx + 1
                /\ UNCHANGED <<proc_console, proc_pc>>
           ELSE IF GetRaises(sat)
           THEN /\ proc_pc' = "raised"
                /\ UNCHANGED <<proc_idx, processed_satellites, proc_console>>
           ELSE /\ proc_console' = Append(proc_console,
                       "Error processing satellite " \o sat.OBJECT_NAME)
                /\ proc_idx' = proc_idx + 1
                /\ UNCHANGED <<processed_satellites, proc_pc>>
    /\ UNCHANGED sat_data
    /\ UNCHANGED <<rank_vars, sep_vars, acq_vars>>

\* Line 51: return processed_satellites.
ReturnProc ==
    /\ proc_pc = "loop"
    /\ proc_idx > Len(sat_data)
    /\ proc_pc' = "done"
    /\ UNCHANGED <<sat_data, proc_idx, processed_satellites, proc_console>>
    /\ UNCHANGED <<rank_vars, sep_vars, acq_vars>>

NextProc ==
    \/ ProcessSat
    \/ ReturnProc

\* ------------------------------------------------------------------------
\* Specifications
\* ------------------------------------------------------------------------

\* A run of analyze_spacetrack_data.py.
SpecRank == InitRank /\ [][NextRank]_vars

\* angular_separation applied to a pair of directions, both ways round.
SpecSep == InitSep /\ [][NextSep]_vars

\* A run of get_spacetrack_data.py.
SpecAcq == InitAcq /\ [][NextAcq]_vars

\* A call of process_tle_with_skyfield.
SpecProc == InitProc /\ [][NextProc]_vars

\* ------------------------------------------------------------------------
\* The ranking routine as a function of its input
\* ------------------------------------------------------------------------

RECURSIVE EvaluateAll(_, _, _)
EvaluateAll(satellites, i, cands) ==
    IF i > Len(satellites) THEN cands
    ELSE EvaluateAll(satellites, i + 1, EvaluateSat(cands, satellites[i]))

\* What find_smarter_every_days_satellite prints of candidates when called
\* on gp: nothing when from_omm raises, else one block for each of
\* candidates[:5] after the sort.
RankOutput(gp) ==
    IF \E i \in DOMAIN gp : FromOmmRaises(gp[i]) THEN <<>>
    ELSE LET satellites == [i \in DOMAIN gp |-> from_omm(gp[i])]
             top == TopSlice(SortBySep(EvaluateAll(satellites, 1, <<>>)))
         IN  [k \in DOMAIN top |-> PrintedBlock(top[k])]

\* ------------------------------------------------------------------------
\* Vocabulary of the properties
\* ------------------------------------------------------------------------

\* The candidate blocks printed so far, in order.
Blocks == SelectSeq(console, LAMBDA e : e.text = "Satellite")

BlockSat(b) == b.args[1]

BlockSep(b) == b.args[2]

BlockAlt(b) == b.args[3]

BlockKm(b) == b.args[5]

\* The ranking run has ended: it returned, or an exception left it.
RankEnded == pc \in {"done", "raised"}

\* The topocentric observation of the object a record describes.
Observed(fields) == Ephemeris[fields.NORAD_CAT_ID]

\* Positions of the records that can be propagated and pass the filter:
\* altitude above 0 degrees and range below 10,000 km.
Survivors(gp) ==
    {i \in DOMAIN gp : /\ gp[i].complete
                       /\ Observed(gp[i]).alt > 0
                       /\ Observed(gp[i]).km < 10000}

\* Separation of a record's object from the sun.
SunSep(fields) ==
    angular_separation(SUN_ALT, SUN_AZ, Observed(fields).alt, Observed(fields).az)

\* How many of the positions in I hold a record of object n.
CountIn(gp, I, n) == Cardinality({i \in I : gp[i].NORAD_CAT_ID = n})

\* How many printed blocks show object n.
CountShown(n) == Cardinality({k \in DOMAIN Blocks : BlockSat(Blocks[k]).satnum = n})

Min(x, y) == IF x < y THEN x ELSE y

\* gp with its records rearranged by the permutation p of its positions.
Permute(gp, p) == [i \in DOMAIN gp |-> gp[p[i]]]

\* Inputs up to this length are compared with all their permutations, longer
\* ones with all exchanges of two records (which generate the permutations;
\* the inputs are closed under them).
MaxPermLen == 4

Exchanges(n) ==
    {[k \in 1..n |-> IF k = i THEN j ELSE IF k = j THEN i ELSE k] : i, j \in 1..n}

Rearrangements(n) == IF n <= MaxPermLen THEN Permutations(1..n) ELSE Exchanges(n)

\* ------------------------------------------------------------------------
\* Properties
\* ------------------------------------------------------------------------

\* C1: batch resilience.  A record whose satellite model cannot be built is
\* skipped and every other record is still evaluated: the ranking run never
\* ends by an exception, and when it ends every record that can be
\* propagated has been through the loop.
C1_BatchResilience ==
    RankEnded =>
        /\ pc = "done"
        /\ idx - 1 = Cardinality({i \in DOMAIN gp_data : gp_data[i].complete})

\* C1, for process_tle_with_skyfield: a failure on one satellite is logged
\* and the loop goes on; the call never ends by an exception.  (Violated
\* under SpecProc by a list of EarthSatellite objects: the handler's
\* sat.get raises.)
C1_ProcessTleResilience == proc_pc # "raised"

\* C2: an acquisition failure is never a crash.  When authentication failed
\* (authenticate_space_track returned None) or the query failed
\* (get_space_track_data returned None), the run does not end by an
\* AssertionError; it ends normally, having printed the failure message.
C2_FailureIsNotACrash ==
    (session = None \/ acq_data = NoneValue) =>
        /\ acq_pc # "AssertionError"
        /\ acq_pc = "done" =>
               acq_console[Len(acq_console)] = "Data requet failed. Please try again."

\* C3: every candidate the ranking prints has altitude > 0 degrees and slant
\* range < 10,000 km, and these are the values observed for its satellite;
\* an object on or below the horizon, or at or beyond 10,000 km, is never
\* printed.
C3_OutputAboveHorizonWithinRange ==
    \A k \in DOMAIN Blocks :
        LET b == Blocks[k]
            seen == Ephemeris[BlockSat(b).satnum]
        IN  /\ BlockAlt(b) > 0
            /\ BlockKm(b) < 10000
            /\ seen.alt = BlockAlt(b)
            /\ seen.km = BlockKm(b)
            /\ seen.alt > 0
            /\ seen.km < 10000

\* C3 witness: a finished run that printed a candidate although its input
\* also held an object on or below the horizon and one at or beyond the
\* range cap.
C3_Witness ==
    /\ pc = "done"
    /\ Len(Blocks) > 0
    /\ \E i \in DOMAIN gp_data : Observed(gp_data[i]).alt <= 0
    /\ \E i \in DOMAIN gp_data : Observed(gp_data[i]).km >= 10000

\* C4: the printed candidates are in ascending order of separation from the
\* sun: each block's separation is at most the next block's.
C4_OutputSortedBySeparation ==
    \A k \in 1..(Len(Blocks) - 1) : BlockSep(Blocks[k]) <= BlockSep(Blocks[k + 1])

\* C4 witness: a finished run that printed five candidates of different
\* separations, whose input did not start with the closest one.
C4_Witness ==
    /\ pc = "done"
    /\ Len(Blocks) = 5
    /\ BlockSep(Blocks[1]) < BlockSep(Blocks[5])
    /\ from_omm(gp_data[1]) # BlockSat(Blocks[1])
    /\ SunSep(gp_data[1]) > BlockSep(Blocks[1])

\* C5: at most 5 candidates are printed; and when the input is empty or no
\* record survives the filter, the run prints no candidate and completes
\* without an error.
C5_AtMostFiveAndEmptyIsNoError ==
    /\ Len(Blocks) <= 5
    /\ (RankEnded /\ Survivors(gp_data) = {}) => (pc = "done" /\ Len(Blocks) = 0)

\* C5 for the runs that return (holds): at most 5 blocks, and none when no
\* record passes the filter.
C5_WhenReturned ==
    /\ Len(Blocks) <= 5
    /\ (pc = "done" /\ Survivors(gp_data) = {}) => Len(Blocks) = 0

\* C6: the printed ranking does not depend on the order of the input: every
\* rearrangement of the input prints the same candidates in the same order,
\* equal separations among the survivors included.
C6_OrderIndependent ==
    RankEnded =>
        \A p \in Rearrangements(Len(gp_data)) :
            RankOutput(Permute(gp_data, p)) = Blocks

\* The survivors of gp have pairwise different separations from the sun.
DistinctSeparations(gp) ==
    \A i, j \in Survivors(gp) : SunSep(gp[i]) = SunSep(gp[j]) => i = j

\* C6 amended: when the surviving candidates have pairwise different
\* separations, every rearrangement of the input prints the same candidates
\* in the same order.
C6_OrderIndependentWhenDistinct ==
    (RankEnded /\ DistinctSeparations(gp_data)) =>
        \A p \in Rearrangements(Len(gp_data)) :
            RankOutput(Permute(gp_data, p)) = Blocks

\* C6 witness: a finished run over six visible objects of pairwise different
\* separations, not given in ranked order, of which five were printed.
C6_Witness ==
    /\ pc = "done"
    /\ Len(gp_data) = 6
    /\ Cardinality(Survivors(gp_data)) = 6
    /\ DistinctSeparations(gp_data)
    /\ Len(Blocks) = 5
    /\ SunSep(gp_data[1]) > SunSep(gp_data[6])

\* C7: angular_separation is symmetric: applied to two directions in either
\* order it returns the same value.
C7_Symmetric == sep_pc = "both" => sepAB = sepBA

\* C7 witness: both calls made on two different directions a positive
\* separation apart, one of them the sun's.
C7_Witness ==
    /\ sep_pc = "both"
    /\ dirA = <<SUN_ALT, SUN_AZ>>
    /\ dirB = <<550, 2070>>
    /\ sepAB > 0
    /\ sepAB # NaN

\* C8: satellite_data.json is written only after authentication and the query
\* have both succeeded, and with what the query returned; a run in which
\* either failed leaves the file as it was; and a run that has ended wrote
\* the file exactly when get_space_track_data returned a collection.
C8_FileWrittenOnlyOnSuccess ==
    /\ writes <= 1
    /\ writes = 1 => (session = "Session" /\ acq_data.tag = "list" /\ file = acq_data)
    /\ writes = 0 => file = file0
    /\ (session = None \/ acq_data = NoneValue) => (writes = 0 /\ file = file0)
    /\ acq_pc \in {"done", "AssertionError"} => (writes = 1 <=> acq_data.tag = "list")

\* C8 witness: a run that ended after replacing an existing file by the
\* collection the query returned.
C8_Witness ==
    /\ acq_pc = "done"
    /\ writes = 1
    /\ file0.tag = "list"
    /\ file # file0

\* C9: the ranking routine never changes its input: no step changes the list
\* gp_data or any record in it.
C9_InputNeverMutated == [][gp_data' = gp_data]_vars

\* C9 witness: a run that built satellites from a non-empty input, filled
\* and reordered the candidate list, and returned.
C9_Witness ==
    /\ pc = "done"
    /\ Len(gp_data) > 1
    /\ Len(candidates) > 1
    /\ candidates[1].sat # from_omm(gp_data[1])

\* C10: the printed candidates are exactly the best prefix of the survivors:
\* min(5, |S|) blocks, each for a different record of S, and no record of S
\* left out is strictly closer to the sun than a printed one.
C10_BestPrefixOfSurvivors ==
    RankEnded =>
        LET S == Survivors(gp_data)
        IN  /\ Len(Blocks) = Min(5, Cardinality(S))
            /\ \A n \in CatalogIds : CountShown(n) <= CountIn(gp_data, S, n)
            /\ \A n \in CatalogIds :
                   CountShown(n) < CountIn(gp_data, S, n) =>
                       \A k \in DOMAIN Blocks :
                           ~(SunSep(Record(n, TRUE)) < BlockSep(Blocks[k]))

\* C10 for the runs that return (holds): the printed candidates are the best
\* prefix of the survivors.
C10_WhenReturned ==
    pc = "done" =>
        LET S == Survivors(gp_data)
        IN  /\ Len(Blocks) = Min(5, Cardinality(S))
            /\ \A n \in CatalogIds : CountShown(n) <= CountIn(gp_data, S, n)
            /\ \A n \in CatalogIds :
                   CountShown(n) < CountIn(gp_data, S, n) =>
                       \A k \in DOMAIN Blocks :
                           ~(SunSep(Record(n, TRUE)) < BlockSep(Blocks[k]))

=============================================================================
